---- MODULE Spec2Model ----
(***************************************************************************)
(* license-info-collector: the dependency graph resolver of                *)
(* package_infos.ts (collectPackageInfos and the functions it calls).      *)
(*                                                                         *)
(* A JavaScript object reference is modelled by the field `id` of the      *)
(* record that stands for the object: two records are the same object      *)
(* (===) exactly when their ids are equal.  Sequences of references (the   *)
(* resolved-edge arrays) are sequences of ids.  The manifests are JSON     *)
(* objects; JSON values that are not objects are outside the inputs        *)
(* enumerated here.                                                        *)
(***************************************************************************)
EXTENDS Integers, Sequences, FiniteSets, TLC

VARIABLES
  pc,                      \* position in the operation under way
  nodeModuleFiles,         \* file contents found by getPackageFiles, in traversal order
  productFile,             \* file content at productPackageJson
  disableNpmVersionCheck,  \* the flag of collectPackageInfos / resolve
  contentsAndErrors,       \* collectPackageInfos: createPackageContent of every dependency file
  productContentOrError,   \* collectPackageInfos: createPackageContent of the product file
  contents,                \* the record set (input of groupSameContents / resolve, then the graph)
  invalidPackages,         \* collectPackageInfos: the error list
  targetPackage,           \* the root handed to removeUnreferencedContents (a reference)
  result,                  \* what removeUnreferencedContents / groupSameContents returned
  dependencies,            \* resolve: the dependency map argument
  outcome                  \* resolve: the DependencyResults returned

vars == <<pc, nodeModuleFiles, productFile, disableNpmVersionCheck, contentsAndErrors,
          productContentOrError, contents, invalidPackages, targetPackage, result,
          dependencies, outcome>>

----------------------------------------------------------------------------
(* Bounds of the model *)

\* dependency manifests read in one collectPackageInfos run
MaxFiles == 2
\* entries of one dependency map handed to resolve
MaxDeps == 2
\* known records handed to resolve
MaxKnown == 2
\* records of the graph handed to removeUnreferencedContents
MaxRecords == 3
\* resolved edges of the graph handed to removeUnreferencedContents
MaxEdges == 2
\* raw records handed to groupSameContents
MaxRaw == 3
\* entries of a legacy licenses array
MaxLicenses == 2

----------------------------------------------------------------------------
(* JavaScript values *)

\* the value undefined, where a string is expected
Undefined == "<undefined>"

\* the value undefined, where an object reference is expected
UndefinedRef == 0

\* an absent dependency map, and one with the given entries in for-in order
AbsentMap == [defined |-> FALSE, entries |-> <<>>]

MapOf(entries) == [defined |-> TRUE, entries |-> entries]

\* for (let packageName in dependencies): nothing is enumerated for undefined
ForIn(deps) == IF deps.defined THEN deps.entries ELSE <<>>

\* Array.prototype.includes on an array of references
Includes(refs, id) == \E i \in 1..Len(refs) : refs[i] = id

RECURSIVE Filter(_, _)
\* Array.prototype.filter with the set of kept positions given
Filter(seq, keep) ==
  IF seq = <<>> THEN <<>>
  ELSE (IF Len(seq) \in keep THEN Filter(SubSeq(seq, 1, Len(seq) - 1), keep) \o <<seq[Len(seq)]>>
        ELSE Filter(SubSeq(seq, 1, Len(seq) - 1), keep))

----------------------------------------------------------------------------
(* The version-range collaborator: semver.satisfies on the strings used here *)

\* new SemVer(version): the parsed triple, or <<>> when the string is no version
SemVerParse(version) ==
  CASE version = "1.0.0" -> <<1, 0, 0>>
    [] version = "v1.0.0" -> <<1, 0, 0>>
    [] version = "1.2.0" -> <<1, 2, 0>>
    [] version = "2.0.0" -> <<2, 0, 0>>
    [] OTHER -> <<>>

\* new Range(range): the comparator, or op "invalid" when the constructor throws
RangeParse(range) ==
  CASE range = "1.0.0" -> [op |-> "=", v |-> <<1, 0, 0>>]
    [] range = "1.2.0" -> [op |-> "=", v |-> <<1, 2, 0>>]
    [] range = "2.0.0" -> [op |-> "=", v |-> <<2, 0, 0>>]
    [] range = "^1.0.0" -> [op |-> "^", v |-> <<1, 0, 0>>]
    [] range = "^1.2.0" -> [op |-> "^", v |-> <<1, 2, 0>>]
    [] range = ">=1.2.0" -> [op |-> ">=", v |-> <<1, 2, 0>>]
    [] OTHER -> [op |-> "invalid", v |-> <<>>]

\* a >= b on parsed versions
SemVerGte(a, b) ==
  \/ a[1] > b[1]
  \/ a[1] = b[1] /\ a[2] > b[2]
  \/ a[1] = b[1] /\ a[2] = b[2] /\ a[3] >= b[3]

\* semver.satisfies(version, range) inside the try/catch of resolve: an invalid
\* range or version gives false
SemverSatisfies(version, range) ==
  LET r == RangeParse(range)
      v == SemVerParse(version)
  IN  /\ r.op # "invalid"
      /\ v # <<>>
      /\ CASE r.op = "=" -> v = r.v
           [] r.op = ">=" -> SemVerGte(v, r.v)
           [] OTHER -> SemVerGte(v, r.v) /\ v[1] = r.v[1]

----------------------------------------------------------------------------
(* groupSameContents *)

isSamePackageContent(left, right) ==
  left.name = right.name /\ left.version = right.version

RECURSIVE FindUniqueFrom(_, _, _)
\* uniques.find(...): the position of the first unique item that is another
\* object with the same name and version, or 0 for undefined
FindUniqueFrom(uniques, k, content) ==
  IF k > Len(uniques) THEN 0
  ELSE IF content.id # uniques[k].id /\ isSamePackageContent(content, uniques[k]) THEN k
  ELSE FindUniqueFrom(uniques, k + 1, content)

\* the merge of a duplicate into the unique item found for it
MergeLosingProvenance(uniqueItem, content) == uniqueItem

MergeProvenance(uniqueItem, content) ==
  [uniqueItem EXCEPT !.packageJson = uniqueItem.packageJson \o content.packageJson]

RECURSIVE GroupFrom(_, _, _)
\* the forEach of groupSameContents from position i on
GroupFrom(cs, i, uniques) ==
  IF i > Len(cs) THEN uniques
  ELSE LET content == cs[i]
           k == FindUniqueFrom(uniques, 1, content)
       IN  IF k = 0 THEN GroupFrom(cs, i + 1, Append(uniques, content))
           ELSE GroupFrom(cs, i + 1, [uniques EXCEPT ![k] = MergeProvenance(uniques[k], content)])

groupSameContents(cs) == GroupFrom(cs, 1, <<>>)

----------------------------------------------------------------------------
(* resolve *)

\* the callback of contents.find with the flag tested before the versions are compared
MatchesFlagFirst(pack, packageName, versionSemanticString, exactOnly) ==
  IF pack.name # packageName THEN FALSE
  ELSE IF exactOnly THEN FALSE
  ELSE IF pack.version = versionSemanticString THEN TRUE
  ELSE SemverSatisfies(pack.version, versionSemanticString)

\* the callback of contents.find in resolve
Matches(pack, packageName, versionSemanticString, exactOnly) ==
  IF pack.name # packageName THEN FALSE
  ELSE IF pack.version = versionSemanticString THEN TRUE
  ELSE IF exactOnly THEN FALSE
  ELSE SemverSatisfies(pack.version, versionSemanticString)

RECURSIVE FindFrom(_, _, _, _, _)
\* Array.prototype.find from position k on: the position found, or 0 for undefined
FindFrom(cs, k, packageName, versionSemanticString, exactOnly) ==
  IF k > Len(cs) THEN 0
  ELSE IF Matches(cs[k], packageName, versionSemanticString, exactOnly) THEN k
  ELSE FindFrom(cs, k + 1, packageName, versionSemanticString, exactOnly)

RECURSIVE FindLastFrom(_, _, _, _, _)
\* a find that scans from the end
FindLastFrom(cs, k, packageName, versionSemanticString, exactOnly) ==
  IF k < 1 THEN 0
  ELSE IF Matches(cs[k], packageName, versionSemanticString, exactOnly) THEN k
  ELSE FindLastFrom(cs, k - 1, packageName, versionSemanticString, exactOnly)

FindLast(cs, packageName, versionSemanticString, exactOnly) ==
  FindLastFrom(cs, Len(cs), packageName, versionSemanticString, exactOnly)

\* const referencedLib = contents.find(...)
Find(cs, packageName, versionSemanticString, exactOnly) ==
  FindFrom(cs, 1, packageName, versionSemanticString, exactOnly)

\* the body of the for-in loop that files a found record under missing as well
ClassifyBoth(res, entry, cs, exactOnly) ==
  LET k == Find(cs, entry.name, entry.spec, exactOnly)
  IN  IF k = 0 THEN [res EXCEPT !.missing = Append(res.missing, entry)]
      ELSE [foundPackages |-> Append(res.foundPackages, cs[k].id),
            missing |-> Append(res.missing, entry)]

\* the body of the for-in loop of resolve: one entry goes to missing or to foundPackages
Classify(res, entry, cs, exactOnly) ==
  LET k == Find(cs, entry.name, entry.spec, exactOnly)
  IN  IF k = 0 THEN [res EXCEPT !.missing = Append(res.missing, entry)]
      ELSE [res EXCEPT !.foundPackages = Append(res.foundPackages, cs[k].id)]

RECURSIVE ResolveFrom(_, _, _, _, _)
ResolveFrom(entries, i, cs, exactOnly, res) ==
  IF i > Len(entries) THEN res
  ELSE ResolveFrom(entries, i + 1, cs, exactOnly, Classify(res, entries[i], cs, exactOnly))

\* resolve(dependencies, contents, disableNpmVersionCheck): foundPackages holds
\* references, missing the entries of the missing object in insertion order
resolve(deps, cs, exactOnly) ==
  ResolveFrom(ForIn(deps), 1, cs, exactOnly, [foundPackages |-> <<>>, missing |-> <<>>])

\* resolveRawDependencies: Object.assign of the three resolved arrays onto every record
resolveRawDependencies(cs, exactOnly) ==
  [i \in 1..Len(cs) |->
     [packageDependencies |-> resolve(cs[i].dependencies, cs, exactOnly).foundPackages,
      packageDevDependencies |-> resolve(cs[i].devDependencies, cs, exactOnly).foundPackages,
      packageOptionalDependencies |->
        resolve(cs[i].optionalDependencies, cs, exactOnly).foundPackages] @@ cs[i]]

----------------------------------------------------------------------------
(* removeUnreferencedContents *)

\* c lists content in one of its three resolved arrays
Lists(c, content) ==
  \/ Includes(c.packageDependencies, content.id)
  \/ Includes(c.packageDevDependencies, content.id)
  \/ Includes(c.packageOptionalDependencies, content.id)

RECURSIVE ReferencedFrom(_, _, _)
\* the inner for loop of the filter callback, the record itself skipped
ReferencedFrom(cs, j, content) ==
  IF j > Len(cs) THEN FALSE
  ELSE IF cs[j].id = content.id THEN ReferencedFrom(cs, j + 1, content)
  ELSE IF Lists(cs[j], content) THEN TRUE
  ELSE ReferencedFrom(cs, j + 1, content)

RECURSIVE ReferencedBySelfTooFrom(_, _, _)
\* the inner loop without the `c === content` skip
ReferencedBySelfTooFrom(cs, j, content) ==
  IF j > Len(cs) THEN FALSE
  ELSE IF Lists(cs[j], content) THEN TRUE
  ELSE ReferencedBySelfTooFrom(cs, j + 1, content)

\* a filter callback that counts a record's reference to itself
KeepsCountingSelf(cs, target, content) ==
  IF content.id = target THEN TRUE ELSE ReferencedBySelfTooFrom(cs, 1, content)

\* a filter callback that looks for the record in the root's arrays only
KeepsListedByRootOnly(cs, target, content) ==
  \/ content.id = target
  \/ \E j \in 1..Len(cs) : cs[j].id = target /\ cs[j].id # content.id /\ Lists(cs[j], content)

\* the filter callback of removeUnreferencedContents
Keeps(cs, target, content) ==
  IF content.id = target THEN TRUE ELSE ReferencedFrom(cs, 1, content)

removeUnreferencedContents(cs, target) ==
  Filter(cs, {i \in 1..Len(cs) : Keeps(cs, target, cs[i])})

----------------------------------------------------------------------------
(* Manifest contents and createPackageContent *)

\* JSON values of the `license` field: absent, a string, or a legacy object
\* whose `type` is a string or undefined
LicenseAbsent == [tag |-> "undefined", str |-> "", type |-> Undefined]

LicenseString(s) == [tag |-> "string", str |-> s, type |-> Undefined]

LicenseObject(t) == [tag |-> "object", str |-> "", type |-> t]

\* JSON values of the `licenses` field: absent, or an array of legacy objects
LicensesAbsent == [defined |-> FALSE, items |-> <<>>]

LicensesArray(items) == [defined |-> TRUE, items |-> items]

\* `!license.type`: undefined and the empty string are falsy
Truthy(str) == str # Undefined /\ str # ""

RECURSIVE Join(_, _)
\* Array.prototype.join
Join(strs, sep) ==
  IF strs = <<>> THEN ""
  ELSE IF Len(strs) = 1 THEN strs[1]
  ELSE strs[1] \o sep \o Join(Tail(strs), sep)

\* the `types` array collected from deprecatedContent.licenses
CollectTypes(items) ==
  LET typed == SelectSeq(items, LAMBDA l : Truthy(l.type))
  IN  [i \in 1..Len(typed) |-> typed[i].type]

\* transformDeprecatedContent(content, content): content and deprecatedContent
\* are the same object, so the push onto licenses is seen in the record
transformDeprecatedContent(content) ==
  IF content.license.tag = "string" /\ content.license.str # "" THEN content
  ELSE
    LET pushes == content.license.tag = "object" /\ content.license.type # Undefined
        licenses == IF pushes
                    THEN LicensesArray(content.licenses.items \o <<[type |-> content.license.type]>>)
                    ELSE content.licenses
        pushed == [content EXCEPT !.licenses = licenses]
        types == CollectTypes(licenses.items)
    IN  IF ~licenses.defined THEN pushed
        ELSE IF Len(types) > 1
          THEN [pushed EXCEPT !.license = LicenseString("(" \o Join(types, " OR ") \o ")")]
        ELSE IF Len(types) = 1 THEN [pushed EXCEPT !.license = LicenseString(types[1])]
        ELSE pushed

\* the path of the i-th package.json found under the module roots, and the
\* product's own manifest path
PathOf(i) == "node_modules/" \o ToString(i) \o "/package.json"

ProductPath == "package.json"

\* a file whose text JSON.parse rejects
Malformed ==
  [parses |-> FALSE, name |-> Undefined, version |-> Undefined, packageFilePath |-> Undefined,
   license |-> LicenseAbsent, licenses |-> LicensesAbsent,
   dependencies |-> AbsentMap, devDependencies |-> AbsentMap, optionalDependencies |-> AbsentMap]

\* a file holding a JSON object with these fields (packageFilePath: the value of
\* a field of that name in the JSON text, Undefined when it has none)
Manifest(name, version, license, licenses, deps, devDeps, optDeps, packageFilePath) ==
  [parses |-> TRUE, name |-> name, version |-> version, packageFilePath |-> packageFilePath,
   license |-> license, licenses |-> licenses,
   dependencies |-> deps, devDependencies |-> devDeps, optionalDependencies |-> optDeps]

\* the object of the catch branch of parseFileContents
CollectPackageError(packageFilePath) == [packageFilePath |-> packageFilePath]

\* the object JSON.parse returns, a fresh object with reference id
ParsedObject(file, id) ==
  [id |-> id, name |-> file.name, version |-> file.version,
   packageFilePath |-> file.packageFilePath,
   license |-> file.license, licenses |-> file.licenses,
   dependencies |-> file.dependencies, devDependencies |-> file.devDependencies,
   optionalDependencies |-> file.optionalDependencies]

parseFileContents(packageFilePath, file, id) ==
  IF file.parses THEN ParsedObject(file, id) ELSE CollectPackageError(packageFilePath)

isCollectPackageError(object) == object.packageFilePath # Undefined

isCollectRawDependencies(object) == ~isCollectPackageError(object)

\* createPackageContent(packageFilePath) of the file read at that path
createPackageContent(packageFilePath, file, id) ==
  LET parsed == parseFileContents(packageFilePath, file, id)
  IN  IF isCollectPackageError(parsed) THEN parsed
      ELSE transformDeprecatedContent([packageJson |-> <<packageFilePath>>] @@ parsed)

----------------------------------------------------------------------------
(* collectPackageInfos, statement by statement *)

\* a variable that holds nothing yet
Unset == <<>>

\* all sequences over S of length at most n
SeqsUpTo(S, n) == UNION {[1..k -> S] : k \in 0..n}

\* const contentsAndErrors = getPackageFiles(nodeModulePaths).map(createPackageContent)
ReadDependencyManifests ==
  /\ pc = "read"
  /\ contentsAndErrors' =
       [i \in 1..Len(nodeModuleFiles) |-> createPackageContent(PathOf(i), nodeModuleFiles[i], i)]
  /\ pc' = "product"
  /\ UNCHANGED <<nodeModuleFiles, productFile, disableNpmVersionCheck, productContentOrError,
                 contents, invalidPackages, targetPackage, result, dependencies, outcome>>

\* const productContentOrError = createPackageContent(productPackageJson)
CreateProductContent ==
  /\ pc = "product"
  /\ productContentOrError' =
       createPackageContent(ProductPath, productFile, Len(nodeModuleFiles) + 1)
  /\ pc' = "group"
  /\ UNCHANGED <<nodeModuleFiles, productFile, disableNpmVersionCheck, contentsAndErrors,
                 contents, invalidPackages, targetPackage, result, dependencies, outcome>>

\* let contents = contentsAndErrors.filter(isCollectRawDependencies);
\* contents = groupSameContents(contents);
\* const invalidPackages = contentsAndErrors.filter(isCollectPackageError)
GroupContents ==
  /\ pc = "group"
  /\ contents' = groupSameContents(
       Filter(contentsAndErrors,
              {i \in 1..Len(contentsAndErrors) : isCollectRawDependencies(contentsAndErrors[i])}))
  /\ invalidPackages' =
       Filter(contentsAndErrors,
              {i \in 1..Len(contentsAndErrors) : isCollectPackageError(contentsAndErrors[i])})
  /\ pc' = "append"
  /\ UNCHANGED <<nodeModuleFiles, productFile, disableNpmVersionCheck, contentsAndErrors,
                 productContentOrError, targetPackage, result, dependencies, outcome>>

\* isCollectPackageError(productContentOrError)
\*   ? invalidPackages.push(productContentOrError) : contents.push(productContentOrError)
AppendProduct ==
  /\ pc = "append"
  /\ IF isCollectPackageError(productContentOrError)
     THEN /\ invalidPackages' = Append(invalidPackages, productContentOrError)
          /\ contents' = contents
     ELSE /\ contents' = Append(contents, productContentOrError)
          /\ invalidPackages' = invalidPackages
  /\ pc' = "resolve"
  /\ UNCHANGED <<nodeModuleFiles, productFile, disableNpmVersionCheck, contentsAndErrors,
                 productContentOrError, targetPackage, result, dependencies, outcome>>

\* const resolvedContents = resolveRawDependencies(contents, disableNpmVersionCheck):
\* the records of contents themselves, with the resolved arrays assigned
ResolveDependencies ==
  /\ pc = "resolve"
  /\ contents' = resolveRawDependencies(contents, disableNpmVersionCheck)
  /\ pc' = "prune"
  /\ UNCHANGED <<nodeModuleFiles, productFile, disableNpmVersionCheck, contentsAndErrors,
                 productContentOrError, invalidPackages, targetPackage, result, dependencies,
                 outcome>>

\* resolvedContents[resolvedContents.length - 1]: undefined for an empty array
LastOf(cs) == IF Len(cs) = 0 THEN UndefinedRef ELSE cs[Len(cs)].id

\* const result = removeUnreferencedContents(resolvedContents,
\*   resolvedContents[resolvedContents.length - 1]); return {result, invalidPackages}
RemoveUnreferenced ==
  /\ pc = "prune"
  /\ targetPackage' = LastOf(contents)
  /\ result' = removeUnreferencedContents(contents, LastOf(contents))
  /\ pc' = "returned"
  /\ UNCHANGED <<nodeModuleFiles, productFile, disableNpmVersionCheck, contentsAndErrors,
                 productContentOrError, contents, invalidPackages, dependencies, outcome>>

----------------------------------------------------------------------------
(* transformDeprecatedContent on every license shape *)

LicenseTypes == {Undefined, "", "MIT", "ISC"}

LicenseValues ==
  {LicenseAbsent, LicenseString("MIT"), LicenseString("")}
    \cup {LicenseObject(t) : t \in LicenseTypes}

\* absent, or an array of at most n legacy objects
LicensesValues(n) ==
  {LicensesAbsent}
    \cup {LicensesArray(items) : items \in SeqsUpTo({[type |-> t] : t \in LicenseTypes}, n)}

InitLicense ==
  /\ pc = "product"
  /\ nodeModuleFiles = <<>>
  /\ productFile \in {Manifest("app", "1.0.0", l, ls, AbsentMap, AbsentMap, AbsentMap, Undefined) :
                        l \in LicenseValues, ls \in LicensesValues(MaxLicenses)}
  /\ disableNpmVersionCheck = FALSE
  /\ contentsAndErrors = <<>>
  /\ productContentOrError = Unset
  /\ contents = Unset
  /\ invalidPackages = Unset
  /\ targetPackage = UndefinedRef
  /\ result = Unset
  /\ dependencies = AbsentMap
  /\ outcome = Unset

NextLicense == CreateProductContent

SpecLicense == InitLicense /\ [][NextLicense]_vars

\* the truthy `type` fields a manifest lists: those of the legacy licenses
\* array in order, then that of the legacy license object
ListedTypes(file) ==
  LET typed == SelectSeq(file.licenses.items, LAMBDA l : l.type # Undefined /\ l.type # "")
  IN  [i \in 1..Len(typed) |-> typed[i].type]
        \o (IF file.license.tag = "object" /\ file.license.type # Undefined
                 /\ file.license.type # ""
            THEN <<file.license.type>> ELSE <<>>)

\* C9: after transformDeprecatedContent the license is a string or absent, and
\* without a modern string license it is fixed by the listed legacy types: none
\* leaves it absent, one sets it to that type, several to "(A OR B ...)".
C9_LicenseNormalized ==
  (pc = "group" /\ isCollectRawDependencies(productContentOrError)) =>
    LET license == productContentOrError.license
        types == ListedTypes(productFile)
    IN  /\ license.tag \in {"string", "undefined"}
        /\ productFile.license.tag # "string" =>
             /\ Len(types) = 0 => license = LicenseAbsent
             /\ Len(types) = 1 => license = LicenseString(types[1])
             /\ Len(types) >= 2 => license = LicenseString("(" \o Join(types, " OR ") \o ")")

----------------------------------------------------------------------------
(* groupSameContents on every sequence of raw records *)

\* a manifest that declares no dependency
Leaf(name, version, license) ==
  Manifest(name, version, license, LicensesAbsent, AbsentMap, AbsentMap, AbsentMap, Undefined)

\* the dependency manifests read: two names in two versions, under two
\* licenses, and malformed files
GroupFiles ==
  {Malformed}
    \cup {Leaf(n, v, LicenseString(l)) :
            n \in {"lib-a", "lib-b"}, v \in {"1.0.0", "1.2.0"}, l \in {"MIT", "ISC"}}

InitGroup ==
  /\ pc = "read"
  /\ nodeModuleFiles \in SeqsUpTo(GroupFiles, MaxRaw)
  /\ productFile = Leaf("app", "1.0.0", LicenseString("MIT"))
  /\ disableNpmVersionCheck = FALSE
  /\ contentsAndErrors = Unset
  /\ productContentOrError = Unset
  /\ contents = Unset
  /\ invalidPackages = Unset
  /\ targetPackage = UndefinedRef
  /\ result = Unset
  /\ dependencies = AbsentMap
  /\ outcome = Unset

NextGroup == ReadDependencyManifests \/ CreateProductContent \/ GroupContents

SpecGroup == InitGroup /\ [][NextGroup]_vars

\* the raw records handed to groupSameContents
RawRecords == SelectSeq(contentsAndErrors, LAMBDA c : c.packageFilePath = Undefined)

\* the provenance paths of the raw records with the identity of record c, in input order
PathsOfIdentity(raw, c) ==
  LET same == SelectSeq(raw, LAMBDA r : r.name = c.name /\ r.version = c.version)
  IN  [i \in 1..Len(same) |-> same[i].packageJson[1]]

\* the position of the first raw record with the identity of record c
FirstSeen(raw, c) ==
  CHOOSE i \in 1..Len(raw) :
    /\ raw[i].name = c.name /\ raw[i].version = c.version
    /\ \A j \in 1..(i - 1) : ~(raw[j].name = c.name /\ raw[j].version = c.version)

\* C6: groupSameContents returns, for each (name, version) of its input,
\* exactly one record: the first-seen one, with the provenance paths of all
\* input records of that identity concatenated in input order and every other
\* field as in the first-seen record.
C6_ProvenanceComplete ==
  pc = "append" =>
    LET raw == RawRecords
    IN  /\ \A i \in 1..Len(raw) :
             Cardinality({k \in 1..Len(contents) :
                            contents[k].name = raw[i].name
                              /\ contents[k].version = raw[i].version}) = 1
        /\ \A k \in 1..Len(contents) :
             /\ \E i \in 1..Len(raw) : raw[i].id = contents[k].id
             /\ contents[k] =
                  [raw[FirstSeen(raw, contents[k])] EXCEPT
                     !.packageJson = PathsOfIdentity(raw, contents[k])]

\* C6 witness: three records of one identity were merged into one record
\* that carries the three paths
C6_Witness ==
  /\ pc = "append"
  /\ \E k \in 1..Len(contents) :
       /\ Len(contents[k].packageJson) >= 3
       /\ \E i \in 1..Len(RawRecords) :
            /\ isSamePackageContent(RawRecords[i], contents[k])
            /\ RawRecords[i].license # contents[k].license

----------------------------------------------------------------------------
(* resolve on every dependency map, known-record set and flag *)

\* version strings of known records; "v1.0.0" is the semantic version 1.0.0
\* and "dev" is no semantic version
KnownVersions == {"1.0.0", "v1.0.0", "1.2.0", "dev"}

\* specifier strings; "dev" is no range
Specifiers == {"1.0.0", "^1.0.0", ">=1.2.0", "dev"}

\* names of known records, and names a map may declare ("lib-c" is never installed)
KnownNames == {"lib-a", "lib-b"}

DependencyNames == {"lib-a", "lib-b", "lib-c"}

\* a known record: resolve reads its name and version and returns its reference
KnownRecord(id, name, version) == [id |-> id, name |-> name, version |-> version]

\* the sets of at most n known records, the i-th record having reference i
KnownRecordSets(n) ==
  {[i \in 1..Len(nv) |-> KnownRecord(i, nv[i][1], nv[i][2])] :
     nv \in SeqsUpTo(KnownNames \X KnownVersions, n)}

\* the dependency maps: absent, or up to n entries under distinct names
DependencyMaps(n) ==
  {AbsentMap}
    \cup {MapOf(es) : es \in {e \in SeqsUpTo([name : DependencyNames, spec : Specifiers], n) :
                               \A i, j \in 1..Len(e) : i # j => e[i].name # e[j].name}}

InitResolve ==
  /\ pc = "resolve-one"
  /\ nodeModuleFiles = Unset
  /\ productFile = Unset
  /\ disableNpmVersionCheck \in BOOLEAN
  /\ contentsAndErrors = Unset
  /\ productContentOrError = Unset
  /\ contents \in KnownRecordSets(MaxKnown)
  /\ invalidPackages = Unset
  /\ targetPackage = UndefinedRef
  /\ result = Unset
  /\ dependencies \in DependencyMaps(MaxDeps)
  /\ outcome = Unset

\* resolve(dependencies, contents, disableNpmVersionCheck)
Resolve ==
  /\ pc = "resolve-one"
  /\ outcome' = resolve(dependencies, contents, disableNpmVersionCheck)
  /\ pc' = "resolved-one"
  /\ UNCHANGED <<nodeModuleFiles, productFile, disableNpmVersionCheck, contentsAndErrors,
                 productContentOrError, contents, invalidPackages, targetPackage, result,
                 dependencies>>

NextResolve == Resolve

SpecResolve == InitResolve /\ [][NextResolve]_vars

\* the record of the known set with reference id
Deref(cs, id) == cs[CHOOSE k \in 1..Len(cs) : cs[k].id = id]

\* the entries of the dependency map, none when it is absent
Entries == IF dependencies.defined THEN dependencies.entries ELSE <<>>

\* the number of found records named n, and whether missing[n] is the specifier
FoundNamed(n) ==
  Cardinality({k \in 1..Len(outcome.foundPackages) :
                 Deref(contents, outcome.foundPackages[k]).name = n})

MissingHas(entry) == \E k \in 1..Len(outcome.missing) : outcome.missing[k] = entry

\* C3: each (name, specifier) of the map is in exactly one of the two outputs
\* of resolve: one found record of that name, or missing[name] = specifier;
\* the sizes add up to the number of entries, and an absent map gives an empty
\* outcome.
C3_ClassifiedExactlyOnce ==
  pc = "resolved-one" =>
    /\ \A i \in 1..Len(Entries) :
         \/ FoundNamed(Entries[i].name) = 1 /\ ~MissingHas(Entries[i])
         \/ FoundNamed(Entries[i].name) = 0 /\ MissingHas(Entries[i])
    /\ \A k \in 1..Len(outcome.missing) :
         /\ \E i \in 1..Len(Entries) : Entries[i] = outcome.missing[k]
         /\ \A m \in 1..Len(outcome.missing) :
              m # k => outcome.missing[m].name # outcome.missing[k].name
    /\ Len(outcome.foundPackages) + Len(outcome.missing) = Len(Entries)
    /\ ~dependencies.defined => outcome = [foundPackages |-> <<>>, missing |-> <<>>]

\* C3 witness: a map of two entries, one resolved and one missing
C3_Witness ==
  /\ pc = "resolved-one"
  /\ Len(Entries) = 2
  /\ Len(outcome.foundPackages) = 1
  /\ Len(outcome.missing) = 1

\* C4: a dependency whose specifier is byte-equal to the version of a known
\* record of its name is resolved, with the version check on or off and
\* whether or not the string is a semantic version.
C4_ExactMatchResolved ==
  pc = "resolved-one" =>
    \A i \in 1..Len(Entries) :
      (\E k \in 1..Len(contents) :
         contents[k].name = Entries[i].name /\ contents[k].version = Entries[i].spec)
      => /\ FoundNamed(Entries[i].name) = 1
         /\ ~MissingHas(Entries[i])

\* C4 witness: with the version check disabled, a dependency on "dev" (no
\* semantic version) is resolved to the record whose version is "dev"
C4_Witness ==
  /\ pc = "resolved-one"
  /\ disableNpmVersionCheck
  /\ \E i \in 1..Len(Entries) :
       /\ Entries[i].spec = "dev"
       /\ \E k \in 1..Len(outcome.foundPackages) :
            /\ Deref(contents, outcome.foundPackages[k]).name = Entries[i].name
            /\ Deref(contents, outcome.foundPackages[k]).version = "dev"

\* version satisfies specifier: byte-equal or, with the version check on, in
\* range (an invalid range or version is not in range)
Satisfies(version, spec, exactOnly) ==
  \/ version = spec
  \/ ~exactOnly /\ RangeParse(spec).op # "invalid" /\ SemverSatisfies(version, spec)

\* the positions of the known records that satisfy an entry
Satisfying(entry) ==
  {k \in 1..Len(contents) :
     /\ contents[k].name = entry.name
     /\ Satisfies(contents[k].version, entry.spec, disableNpmVersionCheck)}

\* the found records in the order of the resolved entries
ResolvedEntries == SelectSeq(Entries, LAMBDA e : Satisfying(e) # {})

\* C10: the record resolve returns for an entry is the earliest known record
\* of that name whose version satisfies the specifier, and the entry is
\* missing exactly when no record satisfies.
C10_FirstMatchWins ==
  pc = "resolved-one" =>
    /\ Len(outcome.foundPackages) = Len(ResolvedEntries)
    /\ \A k \in 1..Len(ResolvedEntries) :
         \E p \in Satisfying(ResolvedEntries[k]) :
           /\ outcome.foundPackages[k] = contents[p].id
           /\ \A q \in Satisfying(ResolvedEntries[k]) : p <= q
    /\ \A i \in 1..Len(Entries) : MissingHas(Entries[i]) <=> Satisfying(Entries[i]) = {}

\* C10 witness: two known records satisfy one entry, the later one by exact
\* match, and the earlier one is returned
C10_Witness ==
  /\ pc = "resolved-one"
  /\ \E i \in 1..Len(Entries) :
       \E p, q \in Satisfying(Entries[i]) :
         /\ p < q
         /\ contents[q].version = Entries[i].spec
         /\ contents[p].version # Entries[i].spec
         /\ Includes(outcome.foundPackages, contents[p].id)
         /\ ~Includes(outcome.foundPackages, contents[q].id)

----------------------------------------------------------------------------
(* removeUnreferencedContents on every graph and every root *)

EdgeKinds == {"packageDependencies", "packageDevDependencies", "packageOptionalDependencies"}

\* the targets of the edges of one kind that leave record i, in the order given
EdgesOf(edges, i, kind) ==
  LET mine == SelectSeq(edges, LAMBDA e : e.from = i /\ e.kind = kind)
  IN  [k \in 1..Len(mine) |-> mine[k].to]

\* a record set of n records with resolved edges, the i-th having reference i
GraphOf(n, edges) ==
  [i \in 1..n |->
     [id |-> i,
      packageDependencies |-> EdgesOf(edges, i, "packageDependencies"),
      packageDevDependencies |-> EdgesOf(edges, i, "packageDevDependencies"),
      packageOptionalDependencies |-> EdgesOf(edges, i, "packageOptionalDependencies")]]

\* the sequences of at most maxEdges resolved edges among n records
EdgeLists(n, maxEdges) == SeqsUpTo([from : 1..n, kind : EdgeKinds, to : 1..n], maxEdges)

\* every graph of at most MaxRecords records and MaxEdges resolved edges, and
\* any root: a record of the graph, or undefined
InitPrune ==
  /\ pc = "prune-one"
  /\ nodeModuleFiles = Unset
  /\ productFile = Unset
  /\ disableNpmVersionCheck = FALSE
  /\ contentsAndErrors = Unset
  /\ productContentOrError = Unset
  /\ \E n \in 0..MaxRecords : \E edges \in EdgeLists(n, MaxEdges) : contents = GraphOf(n, edges)
  /\ invalidPackages = Unset
  /\ targetPackage \in {UndefinedRef} \cup {contents[i].id : i \in 1..Len(contents)}
  /\ result = Unset
  /\ dependencies = AbsentMap
  /\ outcome = Unset

\* removeUnreferencedContents(contents, targetPackage)
Prune ==
  /\ pc = "prune-one"
  /\ result' = removeUnreferencedContents(contents, targetPackage)
  /\ pc' = "pruned-one"
  /\ UNCHANGED <<nodeModuleFiles, productFile, disableNpmVersionCheck, contentsAndErrors,
                 productContentOrError, contents, invalidPackages, targetPackage, dependencies,
                 outcome>>

NextPrune == Prune

SpecPrune == InitPrune /\ [][NextPrune]_vars

\* record a of the graph has a resolved edge of some kind to reference id
HasEdgeTo(a, id) ==
  \E kind \in EdgeKinds : \E k \in 1..Len(a[kind]) : a[kind][k] = id

\* reference id is among the records of cs
Holds(cs, id) == \E k \in 1..Len(cs) : cs[k].id = id

\* C1: removeUnreferencedContents keeps a record exactly when it is the root
\* or another record of the unpruned input lists it in one of its three
\* resolved-edge sequences; the kept records stay in input order.
C1_KeptIffRootOrReferenced ==
  pc = "pruned-one" =>
    /\ \A i \in 1..Len(contents) :
         Holds(result, contents[i].id) <=>
           \/ contents[i].id = targetPackage
           \/ \E j \in 1..Len(contents) : j # i /\ HasEdgeTo(contents[j], contents[i].id)
    /\ \A k \in 1..Len(result) : \E i \in 1..Len(contents) : result[k] = contents[i]
    /\ \A k, m \in 1..Len(result) : k < m => result[k].id < result[m].id

\* C1 witness: a record that only lists itself is dropped, and a record that
\* is listed only by a dropped record is kept
C1_Witness ==
  /\ pc = "pruned-one"
  /\ \E i \in 1..Len(contents) :
       /\ HasEdgeTo(contents[i], contents[i].id)
       /\ ~Holds(result, contents[i].id)
       /\ \E j \in 1..Len(contents) :
            /\ j # i
            /\ HasEdgeTo(contents[i], contents[j].id)
            /\ \A m \in 1..Len(contents) : m # i => ~HasEdgeTo(contents[m], contents[j].id)
            /\ contents[j].id # targetPackage
            /\ Holds(result, contents[j].id)

----------------------------------------------------------------------------
(* collectPackageInfos on every small installation *)

\* the declarations a manifest of the installation makes: none, or one entry
\* in one of its three dependency maps, a range of lib-a or the exact version
\* of app
Declarations ==
  {<<AbsentMap, AbsentMap, AbsentMap>>}
    \cup UNION {{<<MapOf(<<e>>), AbsentMap, AbsentMap>>,
                 <<AbsentMap, MapOf(<<e>>), AbsentMap>>,
                 <<AbsentMap, AbsentMap, MapOf(<<e>>)>>} :
                e \in {[name |-> "lib-a", spec |-> "^1.0.0"],
                       [name |-> "app", spec |-> "1.0.0"]}}

\* a manifest with a modern license string and the given declarations
Declaring(name, version, d) ==
  Manifest(name, version, LicenseString("MIT"), LicensesAbsent, d[1], d[2], d[3], Undefined)

\* a well-formed manifest whose JSON object has a field named packageFilePath
WithPackageFilePath ==
  Manifest("lib-a", "1.0.0", LicenseString("MIT"), LicensesAbsent,
           AbsentMap, AbsentMap, AbsentMap, "elsewhere/package.json")

\* the files found under the module roots
DependencyFiles ==
  {Malformed, WithPackageFilePath}
    \cup {Declaring(nv[1], nv[2], d) :
            nv \in {<<"lib-a", "1.0.0">>, <<"lib-a", "1.2.0">>, <<"app", "1.0.0">>},
            d \in Declarations}

\* the files at the product manifest path
ProductFiles ==
  {Malformed, [WithPackageFilePath EXCEPT !.name = "app"]}
    \cup {Declaring("app", "1.0.0", d) : d \in Declarations}

Init ==
  /\ pc = "read"
  /\ nodeModuleFiles \in SeqsUpTo(DependencyFiles, MaxFiles)
  /\ productFile \in ProductFiles
  /\ disableNpmVersionCheck \in BOOLEAN
  /\ contentsAndErrors = Unset
  /\ productContentOrError = Unset
  /\ contents = Unset
  /\ invalidPackages = Unset
  /\ targetPackage = UndefinedRef
  /\ result = Unset
  /\ dependencies = AbsentMap
  /\ outcome = Unset

Next ==
  \/ ReadDependencyManifests
  \/ CreateProductContent
  \/ GroupContents
  \/ AppendProduct
  \/ ResolveDependencies
  \/ RemoveUnreferenced

Spec == Init /\ [][Next]_vars

----------------------------------------------------------------------------
(* Claims about collectPackageInfos *)

\* the reference of the object parsed from the product manifest
ProductRef == Len(nodeModuleFiles) + 1

\* C2: when the product manifest parses, the product's record is in the
\* returned result.
C2_RootSurvives ==
  (pc = "returned" /\ productFile.parses) => Holds(result, ProductRef)

\* the record set over which the graph is built has been assembled
RecordSetBuilt == pc \in {"resolve", "prune", "returned"}

\* C5: no two distinct records of the record set (deduplicated dependency
\* records plus the product record) share both name and version.
C5_IdentityUnique ==
  RecordSetBuilt =>
    \A i, j \in 1..Len(contents) :
      i # j => ~isSamePackageContent(contents[i], contents[j])

\* path p is a provenance path of some record of the record set
Contributes(p) ==
  \E k \in 1..Len(contents) : Includes(contents[k].packageJson, p)

\* the number of entries of invalidPackages whose packageFilePath is p
InvalidEntries(p) ==
  Cardinality({k \in 1..Len(invalidPackages) : invalidPackages[k].packageFilePath = p})

\* a manifest file read from path p is handled as the claim says: an entry
\* with its path exactly when it does not parse, a record exactly when it does
HandledByParse(file, p) ==
  /\ ~file.parses => InvalidEntries(p) = 1 /\ ~Contributes(p)
  /\ file.parses => InvalidEntries(p) = 0 /\ Contributes(p)

\* C7: a manifest file yields an invalidPackages entry, carrying its own
\* path, exactly when its content does not parse, and then contributes no
\* record; every manifest that parses contributes a record and no entry.
C7_InvalidIffUnparseable ==
  RecordSetBuilt =>
    /\ \A i \in 1..Len(nodeModuleFiles) : HandledByParse(nodeModuleFiles[i], PathOf(i))
    /\ HandledByParse(productFile, ProductPath)
    /\ Len(invalidPackages) =
         Cardinality({i \in 1..Len(nodeModuleFiles) : ~nodeModuleFiles[i].parses})
           + (IF productFile.parses THEN 0 ELSE 1)

\* C8: when the product manifest does not parse, its path is in
\* invalidPackages and no record is kept as root: every record of the result
\* is listed by another record.
C8_NoRootWithoutProduct ==
  (pc = "returned" /\ ~productFile.parses) =>
    /\ InvalidEntries(ProductPath) = 1
    /\ \A k \in 1..Len(result) :
         \E j \in 1..Len(contents) :
           contents[j].id # result[k].id /\ HasEdgeTo(contents[j], result[k].id)

----------------------------------------------------------------------------
(* The result as a graph *)

\* the references a record lists in its three resolved-edge sequences
Targets(record) ==
  UNION {{record[kind][m] : m \in 1..Len(record[kind])} : kind \in EdgeKinds}

RECURSIVE ReachableIn(_, _, _)
\* the references reached from the set `seen` by at most n further resolved
\* edges of the record set cs
ReachableIn(cs, seen, n) ==
  IF n = 0 THEN seen
  ELSE ReachableIn(cs,
                   seen \cup UNION {Targets(cs[k]) : k \in {i \in 1..Len(cs) : cs[i].id \in seen}},
                   n - 1)

\* the references reachable from the root through resolved edges
ReachableFromRoot ==
  IF targetPackage = UndefinedRef THEN {}
  ELSE ReachableIn(contents, {targetPackage}, Len(contents))

\* C11: the result of collectPackageInfos is closed under resolved edges:
\* every record listed by a kept record is kept, so every record reachable
\* from the root through resolved edges is in the result.
C11_ResultClosedUnderEdges ==
  pc = "returned" =>
    /\ \A k \in 1..Len(result) : \A id \in Targets(result[k]) : Holds(result, id)
    /\ \A id \in ReachableFromRoot : Holds(result, id)

\* C11 witness: the product record lists a record that lists a third record,
\* which lists itself, and all three are in the result
C11_Witness ==
  /\ pc = "returned"
  /\ targetPackage = ProductRef
  /\ \E x, y \in 1..Len(contents) :
       /\ contents[x].id # targetPackage
       /\ contents[y].id \notin {targetPackage, contents[x].id}
       /\ contents[x].id \in Targets(contents[Len(contents)])
       /\ contents[y].id \notin Targets(contents[Len(contents)])
       /\ contents[y].id \in Targets(contents[x])
       /\ contents[y].id \in Targets(contents[y])
       /\ Holds(result, contents[x].id)
       /\ Holds(result, contents[y].id)

====
